---- MODULE Spec2Model ----
(***************************************************************************)
(* Browser-side upload forms of render-gemini-docx.                        *)
(*                                                                         *)
(*   static/app.js, second script : the compression form (currentFiles,    *)
(*                                  MAX_FILES, POST /generate)             *)
(*   static/js/app.js             : the plan form (files, prefer/fallback) *)
(*   unnamed/part_000             : setupUploader (fileInput.files)        *)
(*   unnamed/part_001             : the /planla form (filesState)          *)
(*   unnamed/part_003             : the /upload form (files)               *)
(*                                                                         *)
(* Every handler is one action: JavaScript runs a handler to completion,   *)
(* and an async function is cut at its awaits, so the code before an await *)
(* and the continuation after it are separate actions.                     *)
(***************************************************************************)
EXTENDS Integers, Sequences, FiniteSets, Bags, TLC

VARIABLES
    \* ---- static/app.js, second script (compression form)
    currentFiles,     \* let currentFiles = []
    submitDisabled,   \* submitBtn.disabled
    submitText,       \* submitBtn.textContent: "idle" | "preparing" | "submitting"
    errorBox,         \* errorBox.textContent, "" when hidden
    previewGrid,      \* the cards of previewGrid: <<[file, idx]>>
    scheduleInfo,     \* scheduleInfo.textContent: Blank or [cnt, cutoff, n]
    planMonth,        \* planMonthEl.value, a sequence of characters
    intervalDays,     \* intervalEl.value, a sequence of characters
    docName,          \* doc_name field value
    preparing,        \* addFiles invocations suspended at await compressBatch: a bag of
                      \* their imgs
    inflight,         \* fetch('/generate') requests not yet resolved: a bag of their
                      \* payloads
    nAdds,            \* addFiles invocations so far
    nRequests,        \* requests issued so far
    nRemoves,         \* remove clicks so far
    stalled,          \* addFiles invocations whose compressImage promise can no longer
                      \* settle (the FileReader failed): a bag of their imgs
    img,              \* const img = new Image() of compressImage once loaded: its
                      \* width and height
    canvas,           \* the canvas of img.onload: its width and height
    \* ---- static/js/app.js (plan form)
    js_files,         \* let files = []
    js_endpoints,     \* window.__PLAN_ENDPOINTS__: which of prefer, fallback are set
    js_calls,         \* submit invocations suspended at a fetch: a bag of records
    js_results,       \* #results: "" | "processing" | "result" | "error"
    js_toast,         \* #toast: "" | "success" | "danger"
    js_done,          \* the submit invocation that finished last, with what it did
    js_nSubmits,      \* submit events so far
    \* ---- unnamed/part_000 (setupUploader, protectSubmit)
    p0_dataTransfer,  \* const dataTransfer = new DataTransfer(): its .files
    p0_inputFiles,    \* fileInput.files
    p0_thumbs,        \* the thumbs of the list: <<[file, idx]>>
    p0_btnDisabled,   \* submit-btn.disabled
    p0_posted,        \* the files of the form's own POST, <<>> before it
    \* ---- unnamed/part_001 (/planla)
    filesState,       \* const filesState = []
    p1_inputFiles,    \* input#images .files (native)
    p1_thumbs,        \* <<[file, idx]>>
    p1_btnDisabled,   \* submitBtn.disabled
    p1_inflight,      \* fetch("/planla") requests not yet resolved: a bag of payloads
    \* ---- unnamed/part_003 (/upload)
    p3_files,         \* let files = []
    p3_btnDisabled,   \* btn-upload.disabled
    p3_inflight,      \* fetch("/upload") requests not yet resolved: a bag of payloads
    \* ---- observation
    lastEvent         \* the handler that ran last, with what it was given and did

cfVars == <<currentFiles, submitDisabled, submitText, errorBox, previewGrid,
            scheduleInfo, planMonth, intervalDays, docName, preparing, inflight,
            nAdds, nRequests, nRemoves, stalled, img, canvas>>
jsVars == <<js_files, js_endpoints, js_calls, js_results, js_toast, js_done, js_nSubmits>>
p0Vars == <<p0_dataTransfer, p0_inputFiles, p0_thumbs, p0_btnDisabled, p0_posted>>
p1Vars == <<filesState, p1_inputFiles, p1_thumbs, p1_btnDisabled, p1_inflight>>
p3Vars == <<p3_files, p3_btnDisabled, p3_inflight>>
vars == <<cfVars, jsVars, p0Vars, p1Vars, p3Vars, lastEvent>>

-----------------------------------------------------------------------------
(* Bounds of the model *)

MaxAdds == 2        \* addFiles invocations that accept an image, per behaviour
MaxRequests == 2    \* requests per behaviour (each form)
MaxRemoves == 1     \* remove clicks per behaviour (each form)
MaxList == 2        \* files in one drop or one picker selection of the small forms
BigLen == 6         \* files in the large selection offered to the compression form
MaxHeld == 3        \* files held by the forms that configure no maximum

(* Program constants *)

MAX_FILES == 10
maxCutoff == 29
maxEdge == 1280

-----------------------------------------------------------------------------
(* Files.  A File has a name (base and extension), a MIME type (the part   *)
(* before the slash and the part after it) and content that an Image       *)
(* element can decode or not.                                              *)

MkFile(base, ext, major, minor, decodable) ==
    [base |-> base, ext |-> ext, major |-> major, minor |-> minor, decodable |-> decodable]

imgA == MkFile("a", "png", "image", "png", TRUE)
imgB == MkFile("b", "gif", "image", "gif", FALSE)   \* image/* whose data does not decode
txtC == MkFile("c", "txt", "text", "plain", FALSE)

Pool == {imgA, imgB, txtC}

\* /^image\// .test(f.type)  and  f.type.startsWith("image/")
IsImageType(f) == f.major = "image"

RECURSIVE SeqsUpTo(_, _)
SeqsUpTo(S, n) ==
    IF n = 0 THEN {<<>>}
    ELSE LET shorter == SeqsUpTo(S, n - 1)
         IN  shorter \cup {Append(s, x) : s \in {t \in shorter : Len(t) = n - 1}, x \in S}

\* What one drop or one picker selection can hold (the small forms)
FileLists == SeqsUpTo(Pool, MaxList)

BigList == [i \in 1..BigLen |-> IF i % 2 = 1 THEN imgA ELSE imgB]

\* What one drop or one picker selection holds in the compression form
Selections == {<<txtC>>, <<imgB, txtC>>, BigList}

-----------------------------------------------------------------------------
(* Array operations of JavaScript *)

\* Array.prototype.filter
Filter(s, Test(_)) == SelectSeq(s, Test)

\* Array.prototype.slice(0, n)
SliceTo(s, n) == SubSeq(s, 1, IF Len(s) < n THEN Len(s) ELSE n)

\* Array.prototype.splice(idx, 1) with a 0-based idx >= 0: the array afterwards
Splice1(s, idx) ==
    IF idx >= Len(s) THEN s
    ELSE SubSeq(s, 1, idx) \o SubSeq(s, idx + 2, Len(s))

-----------------------------------------------------------------------------
(* Field values are sequences of characters; numbers are IEEE doubles of   *)
(* which only the integers and NaN occur here.                             *)

Digits == <<"0", "1", "2", "3", "4", "5", "6", "7", "8", "9">>

IsDigit(c) == \E i \in 1..Len(Digits) : Digits[i] = c

DigitVal(c) == (CHOOSE i \in 1..Len(Digits) : Digits[i] = c) - 1

Num(v) == [nan |-> FALSE, v |-> v]
NaN == [nan |-> TRUE, v |-> 0]

\* the + of two numbers
NumAdd(a, b) == IF a.nan \/ b.nan THEN NaN ELSE Num(a.v + b.v)

\* Math.max(a, x)
MathMax(a, x) == IF x.nan THEN NaN ELSE Num(IF x.v > a THEN x.v ELSE a)

\* Math.min(a, b) of two integers
MathMin(a, b) == IF a < b THEN a ELSE b

\* the value of a run of decimal digits
RECURSIVE DigitsValue(_)
DigitsValue(s) ==
    IF s = <<>> THEN 0
    ELSE 10 * DigitsValue(SubSeq(s, 1, Len(s) - 1)) + DigitVal(s[Len(s)])

\* Number(s) for a string the regular expression has shown to be all digits
ToNumber(s) == DigitsValue(s)

RECURSIVE SkipSpaces(_)
SkipSpaces(s) == IF s # <<>> /\ Head(s) = " " THEN SkipSpaces(Tail(s)) ELSE s

RECURSIVE LeadingDigits(_)
LeadingDigits(s) ==
    IF s # <<>> /\ IsDigit(Head(s)) THEN <<Head(s)>> \o LeadingDigits(Tail(s)) ELSE <<>>

\* parseInt(s, 10): leading white space, an optional sign, then the longest
\* run of digits; NaN when there is none
ParseInt10(s) ==
    LET t == SkipSpaces(s)
        neg == t # <<>> /\ Head(t) = "-"
        u == IF t # <<>> /\ Head(t) \in {"-", "+"} THEN Tail(t) ELSE t
        ds == LeadingDigits(u)
    IN  IF ds = <<>> THEN NaN
        ELSE Num(IF neg THEN 0 - DigitsValue(ds) ELSE DigitsValue(ds))

\* /^\d{4}-\d{2}$/ .test(ym)
MatchesYearMonth(ym) ==
    /\ Len(ym) = 7
    /\ \A i \in {1, 2, 3, 4, 6, 7} : IsDigit(ym[i])
    /\ ym[5] = "-"

IsLeapYear(y) == (y % 4 = 0 /\ y % 100 # 0) \/ y % 400 = 0

\* days of month index m0 (0 = January) of year y
DaysOfMonthIndex(y, m0) ==
    IF m0 = 1 THEN (IF IsLeapYear(y) THEN 29 ELSE 28)
    ELSE IF m0 \in {3, 5, 8, 10} THEN 30 ELSE 31

\* new Date(y, m, 0).getDate(): a year 0..99 means 1900 + year, the month index
\* carries into the year, and day 0 is the last day of the month before
DateLastDay(y, m) ==
    LET full == IF y >= 0 /\ y <= 99 THEN 1900 + y ELSE y
        t == full * 12 + m - 1
    IN  DaysOfMonthIndex(t \div 12, t % 12)

Blank == [cnt |-> 0, cutoff |-> 0, n |-> Num(0), shown |-> FALSE]

\* the loop with d < cutoff for its test
RECURSIVE CountLoopLt(_, _, _, _)
CountLoopLt(d, n, cutoff, cnt) ==
    IF d.nan \/ d.v >= cutoff THEN cnt
    ELSE CountLoopLt(NumAdd(d, n), n, cutoff, cnt + 1)

\* for (let d = 1; d <= cutoff; d += n) cnt++
RECURSIVE CountLoop(_, _, _, _)
CountLoop(d, n, cutoff, cnt) ==
    IF d.nan \/ d.v > cutoff THEN cnt
    ELSE CountLoop(NumAdd(d, n), n, cutoff, cnt + 1)

\* calcPlanCount(): what it returns (cnt) and what it writes to scheduleInfo (info)
calcPlanCount(ym, iv) ==
    LET n == MathMax(1, ParseInt10(IF iv = <<>> THEN <<"1">> ELSE iv))
    IN  IF ~MatchesYearMonth(ym) THEN [cnt |-> 0, info |-> Blank]
        ELSE LET y == ToNumber(SubSeq(ym, 1, 4))
                 m == ToNumber(SubSeq(ym, 6, 7))
                 lastDay == DateLastDay(y, m)
                 cutoff == MathMin(maxCutoff, lastDay)
                 cnt == CountLoop(Num(1), n, cutoff, 0)
             IN  [cnt |-> cnt,
                  info |-> [cnt |-> cnt, cutoff |-> cutoff, n |-> n, shown |-> TRUE]]

-----------------------------------------------------------------------------
(* What the user and the server can supply *)

Chars(a, b, c, d, e, f, g) == <<a, b, c, d, e, f, g>>

Feb2024 == Chars("2", "0", "2", "4", "-", "0", "2")

\* plan_month values the calendar arithmetic is exercised on
MonthTexts ==
    { Feb2024,
      Chars("2", "0", "2", "3", "-", "0", "2"),
      Chars("1", "9", "0", "0", "-", "0", "2"),
      Chars("2", "0", "0", "0", "-", "0", "2"),
      Chars("0", "0", "9", "6", "-", "0", "2"),
      Chars("2", "0", "2", "4", "-", "0", "1"),
      Chars("2", "0", "2", "4", "-", "0", "4"),
      Chars("2", "0", "2", "4", "-", "1", "2"),
      Chars("2", "0", "2", "4", "-", "0", "0"),
      Chars("2", "0", "2", "4", "-", "1", "3"),
      Chars("2", "0", "2", "3", "-", "1", "4"),
      <<>>,
      <<"2", "0", "2", "4", "-", "2">>,
      <<"2", "0", "2", "4", "-", "0", "2", "-", "0", "1">>,
      Chars("2", "0", "2", "4", "/", "0", "2") }

\* interval_days values
IntervalTexts ==
    { <<>>, <<"0">>, <<"-", "3">>, <<"1">>, <<"2">>, <<"3">>, <<"7">>, <<"1", "5">>,
      <<"2", "8">>, <<"2", "9">>, <<"3", "0">>, <<"0", "2">>, <<" ", "4">>,
      <<"2", ".", "5">>, <<"a", "b", "c">> }

\* the values the fields of the compression form take while files come and go
FormMonths == { Feb2024, <<>> }
FormIntervals == { <<>>, <<"1", "5">>, <<"a", "b", "c">> }
DocNames == { "", "Rapor" }

\* a file name, and the name of no file
FileName(base, ext) == [base |-> base, ext |-> ext]
NoName == FileName("", "")

\* a response of POST /generate: status 0 stands for fetch rejecting (network
\* error); disposition is the filename of Content-Disposition, NoName when the
\* header is absent
Responses == {[status |-> st, disposition |-> NoName] : st \in {200, 0, 413, 502}}

\* a 2xx response that names the file
NamedResponses == {[status |-> 200, disposition |-> FileName("plan", "docx")]}

\* resp.ok
RespOk(resp) == resp.status >= 200 /\ resp.status <= 299

NoEvent == [op |-> "load", idx |-> 0, issued |-> FALSE, over |-> FALSE,
            status |-> 0, disposition |-> NoName, download |-> NoName]

Ev(op) == [NoEvent EXCEPT !.op = op]

-----------------------------------------------------------------------------
(* static/app.js, second script: the compression form *)

\* width and height of an element
Size(w, h) == [width |-> w, height |-> h]

\* no image loaded, no canvas made
NoSize == Size(0, 0)

\* a submit invocation of the plan form: the requests it has sent, each with
\* its endpoint and outcome, whether its local ok is set and whether it showed
\* the error
Call(requests, ok, error) == [requests |-> requests, ok |-> ok, error |-> error]

NoCall == Call(<<>>, FALSE, FALSE)

\* widths and heights of the images loaded
ImageSides == {1, 2, 3, 640, 1279, 1280, 1281, 1920, 2559, 2560, 2561, 4000, 5120, 5121}

\* Math.round(p / q) for p >= 0, q > 0: the nearest integer, halves upwards
RoundDiv(p, q) == (2 * p + q) \div (2 * q)

\* Math.round(side * Math.min(maxEdge / longest, 1)), longest = Math.max(w, h):
\* the factor is 1 when longest <= maxEdge, else maxEdge / longest
scaledSide(side, longest) ==
    IF longest <= maxEdge THEN side ELSE RoundDiv(side * maxEdge, longest)

\* canvas.width = w; canvas.height = h of img.onload
canvasSize(w, h) ==
    LET longest == IF w > h THEN w ELSE h
    IN  Size(scaledSide(w, longest), scaledSide(h, longest))

\* img.onload of compressImage, for an image of w by h pixels, up to drawImage
ImgOnload ==
    \E w \in ImageSides, h \in ImageSides :
        /\ img' = Size(w, h)
        /\ canvas' = canvasSize(w, h)
        /\ lastEvent' = Ev("img.onload")
        /\ UNCHANGED <<currentFiles, submitDisabled, submitText, errorBox, previewGrid,
                       scheduleInfo, planMonth, intervalDays, docName, preparing, inflight,
                       nAdds, nRequests, nRemoves, stalled>>
        /\ UNCHANGED <<jsVars, p0Vars, p1Vars, p3Vars>>

\* compressImage(file, 1280, 0.8): "null" is resolve(null), "reject" is the
\* rejection when canvas.toBlob hands over no blob (blobOk false)
compressImage(file, blobOk) ==
    IF ~IsImageType(file) THEN [kind |-> "null", file |-> file]
    ELSE IF ~file.decodable THEN [kind |-> "null", file |-> file]
    ELSE IF ~blobOk THEN [kind |-> "reject", file |-> file]
    ELSE [kind |-> "file",
          file |-> MkFile(file.base, "jpg", "image", "jpeg", file.decodable)]

\* compressBatch(files): out.push(await compressImage(f) || f), one file after
\* the other; the first rejection rejects the batch
RECURSIVE compressBatch(_, _)
compressBatch(files, blobOk) ==
    IF files = <<>> THEN [rejected |-> FALSE, out |-> <<>>]
    ELSE LET r == compressImage(Head(files), blobOk)
             rest == compressBatch(Tail(files), blobOk)
         IN  IF r.kind = "reject" \/ rest.rejected
             THEN [rejected |-> TRUE, out |-> <<>>]
             ELSE [rejected |-> FALSE, out |-> <<r.file>> \o rest.out]

\* updateStatus(): the value it gives submitBtn.disabled
updateStatus(files) == Len(files) = 0 \/ Len(files) > MAX_FILES

\* a card whose click listener closes over the position counted from 1
makePreviewShifted(file, idx) == [file |-> file, idx |-> idx + 1]

\* makePreview(file, idx): the card, with the idx its click listener closes over
makePreview(file, idx) == [file |-> file, idx |-> idx]

\* calcPlanCount() for every pair of field values of the model, computed once
planOf == [ym \in MonthTexts, iv \in IntervalTexts |-> calcPlanCount(ym, iv)]

\* renderPreviews(): what it leaves in errorBox, previewGrid, scheduleInfo and
\* submitBtn.disabled, given currentFiles and the two fields
renderPreviews(files, ym, iv) ==
    LET plan == planOf[ym, iv]
        e1 == IF Len(files) > MAX_FILES THEN "too many" ELSE ""
        e2 == IF plan.cnt > 0 /\ Len(files) > plan.cnt THEN "plan count exceeded" ELSE e1
    IN  [errorBox |-> e2,
         previewGrid |-> [i \in 1..Len(files) |-> makePreview(files[i], i - 1)],
         scheduleInfo |-> plan.info,
         submitDisabled |-> updateStatus(files)]

\* the assignments of a handler that ends in renderPreviews(), with the
\* collection and the two fields as the handler leaves them
Rendered(files, ym, iv) ==
    LET r == renderPreviews(files, ym, iv)
    IN  /\ currentFiles' = files
        /\ planMonth' = ym
        /\ intervalDays' = iv
        /\ errorBox' = r.errorBox
        /\ previewGrid' = r.previewGrid
        /\ scheduleInfo' = r.scheduleInfo
        /\ submitDisabled' = r.submitDisabled

OtherForms == UNCHANGED <<jsVars, p0Vars, p1Vars, p3Vars>>

\* addFiles(fileList) up to its await
addFiles(fileList) ==
    LET imgs == Filter(fileList, IsImageType)
    IN  /\ nAdds < MaxAdds
        /\ IF imgs = <<>>
           THEN UNCHANGED <<submitText, submitDisabled, preparing, nAdds>>
           ELSE /\ submitText' = "preparing"
                /\ submitDisabled' = TRUE
                /\ preparing' = preparing (+) SetToBag({imgs})
                /\ nAdds' = nAdds + 1
        /\ lastEvent' = [Ev("addFiles") EXCEPT !.issued = imgs # <<>>]
        /\ UNCHANGED <<currentFiles, errorBox, previewGrid, scheduleInfo, planMonth,
                       intervalDays, docName, inflight, nRequests, nRemoves>>
        /\ UNCHANGED <<stalled, img, canvas>>
        /\ OtherForms

\* dropzone.addEventListener('drop', e => addFiles(e.dataTransfer.files))
DropzoneDrop == \E fileList \in Selections : addFiles(fileList)

\* fileInput.addEventListener('change', e => addFiles(e.target.files))
FileInputChange == \E fileList \in Selections : addFiles(fileList)

\* the prepared batch put in place of the collection
MergedOverwrite(files, compressed) == SliceTo(compressed, MAX_FILES)

\* the concatenation without the slice
MergedNoSlice(files, compressed) == files \o compressed

\* currentFiles.concat(compressed).slice(0, MAX_FILES)
Merged(files, compressed) == SliceTo(files \o compressed, MAX_FILES)

\* addFiles after its await: a suspended invocation, started with imgs, goes on
addFilesResume(imgs, blobOk) ==
    LET batch == compressBatch(imgs, blobOk)
    IN  /\ BagIn(imgs, preparing)
        /\ preparing' = preparing (-) SetToBag({imgs})
        /\ submitText' = "idle"
        /\ UNCHANGED <<docName, inflight, nAdds, nRequests, nRemoves>>
        /\ IF batch.rejected
           THEN \* finally, then the rejection leaves addFiles: no renderPreviews()
                /\ submitDisabled' = (Len(currentFiles) = 0)
                /\ UNCHANGED <<currentFiles, errorBox, previewGrid, scheduleInfo,
                               planMonth, intervalDays>>
                /\ lastEvent' = Ev("addFilesRejected")
           ELSE /\ Rendered(Merged(currentFiles, batch.out), planMonth, intervalDays)
                /\ lastEvent' = [Ev("addFilesDone") EXCEPT
                                    !.over = Len(currentFiles) + Len(batch.out) > MAX_FILES]
        /\ UNCHANGED <<stalled, img, canvas>>
        /\ OtherForms

AddFilesResume ==
    \E imgs \in BagToSet(preparing) : \E blobOk \in BOOLEAN : addFilesResume(imgs, blobOk)

\* the FileReader of compressImage fails on a file of a suspended invocation:
\* reader.onerror is not set, img.src is never assigned, and the promise of
\* compressImage never settles, so the invocation stays at its await
ReaderError ==
    \E imgs \in BagToSet(preparing) :
        /\ preparing' = preparing (-) SetToBag({imgs})
        /\ stalled' = stalled (+) SetToBag({imgs})
        /\ lastEvent' = Ev("reader error")
        /\ UNCHANGED <<currentFiles, submitDisabled, submitText, errorBox, previewGrid,
                       scheduleInfo, planMonth, intervalDays, docName, inflight, nAdds,
                       nRequests, nRemoves, img, canvas>>
        /\ OtherForms

\* removeBtn click of the card at position k of the grid (1-based)
removeClick(k) ==
    /\ nRemoves < MaxRemoves
    /\ nRemoves' = nRemoves + 1
    /\ Rendered(Splice1(currentFiles, previewGrid[k].idx), planMonth, intervalDays)
    /\ lastEvent' = [Ev("remove") EXCEPT !.idx = k]
    /\ UNCHANGED <<submitText, docName, preparing, inflight, nAdds, nRequests>>
    /\ UNCHANGED <<stalled, img, canvas>>
    /\ OtherForms

RemoveClick == \E k \in 1..Len(previewGrid) : removeClick(k)

\* clearBtn click
ClearClick ==
    /\ Rendered(<<>>, planMonth, intervalDays)
    /\ lastEvent' = Ev("clear")
    /\ UNCHANGED <<submitText, docName, preparing, inflight, nAdds, nRequests, nRemoves>>
    /\ UNCHANGED <<stalled, img, canvas>>
    /\ OtherForms

\* planMonthEl change listener, after the user set the field to ym
monthChange(ym) ==
    /\ Rendered(currentFiles, ym, intervalDays)
    /\ lastEvent' = Ev("month")
    /\ UNCHANGED <<submitText, docName, preparing, inflight, nAdds, nRequests, nRemoves>>
    /\ UNCHANGED <<stalled, img, canvas>>
    /\ OtherForms

\* intervalEl input listener, after the user set the field to iv
intervalInput(iv) ==
    /\ Rendered(currentFiles, planMonth, iv)
    /\ lastEvent' = Ev("interval")
    /\ UNCHANGED <<submitText, docName, preparing, inflight, nAdds, nRequests, nRemoves>>
    /\ UNCHANGED <<stalled, img, canvas>>
    /\ OtherForms

MonthChange == \E ym \in FormMonths : monthChange(ym)
IntervalInput == \E iv \in FormIntervals : intervalInput(iv)

\* the user edits doc_name (no listener)
DocNameEdit ==
    /\ \E v \in DocNames : docName' = v
    /\ lastEvent' = Ev("docName")
    /\ UNCHANGED <<currentFiles, submitDisabled, submitText, errorBox, previewGrid,
                   scheduleInfo, planMonth, intervalDays, preparing, inflight, nAdds,
                   nRequests, nRemoves>>
    /\ UNCHANGED <<stalled, img, canvas>>
    /\ OtherForms

\* (document.getElementById('doc_name').value || 'Instagram_Plani') + '.docx'
downloadName(doc, resp) == FileName(IF doc = "" THEN "Instagram_Plani" ELSE doc, "docx")

\* the checks without the one against the plan count
submitCheckNoPlan(files, planCnt) ==
    IF Len(files) = 0 THEN "no files"
    ELSE IF Len(files) > MAX_FILES THEN "too many"
    ELSE ""

\* the checks of the submit handler: "" when it goes on to fetch, else the
\* message it shows before it returns
submitCheck(files, planCnt) ==
    IF Len(files) = 0 THEN "no files"
    ELSE IF Len(files) > MAX_FILES THEN "too many"
    ELSE IF planCnt > 0 /\ Len(files) > planCnt THEN "plan count exceeded (submit)"
    ELSE ""

\* form submit listener; a form is not submitted through a disabled submit control
Submit ==
    LET plan == planOf[planMonth, intervalDays]
        msg == submitCheck(currentFiles, plan.cnt)
    IN  /\ ~submitDisabled
        /\ nRequests < MaxRequests
        /\ scheduleInfo' = plan.info
        /\ IF msg # ""
           THEN /\ errorBox' = msg
                /\ UNCHANGED <<submitDisabled, submitText, inflight, nRequests>>
           ELSE /\ submitDisabled' = TRUE
                /\ submitText' = "submitting"
                /\ errorBox' = ""
                /\ inflight' = inflight (+) SetToBag({currentFiles})
                /\ nRequests' = nRequests + 1
        /\ lastEvent' = [Ev("submit") EXCEPT !.issued = (msg = "")]
        /\ UNCHANGED <<currentFiles, previewGrid, planMonth, intervalDays, docName,
                       preparing, nAdds, nRemoves>>
        /\ UNCHANGED <<stalled, img, canvas>>
        /\ OtherForms

\* a failure that shows nothing
failureMessageSilent(resp) == ""

\* the message of the Error the then-handler throws, or fetch rejects with
failureMessage(resp) ==
    IF resp.status = 0 THEN "network error"
    ELSE IF resp.status = 413 THEN "too large (413)"
    ELSE IF resp.status = 502 \/ resp.status = 504 THEN "timeout (502/504)"
    ELSE "server error"

\* the handlers with a catch that leaves the control as the submit handler set it
settleStaysDisabled(resp, doc) ==
    IF RespOk(resp)
    THEN [download |-> downloadName(doc, resp), message |-> "", disabled |-> FALSE,
          reset |-> TRUE]
    ELSE [download |-> NoName, message |-> failureMessage(resp), disabled |-> TRUE,
          reset |-> FALSE]

\* the then-handler and the catch-handler up to the reset of the form: the
\* download they trigger, the message they show, what they give
\* submitBtn.disabled and whether the reset of the form follows
settle(resp, doc) ==
    IF RespOk(resp)
    THEN [download |-> downloadName(doc, resp), message |-> "", disabled |-> FALSE,
          reset |-> TRUE]
    ELSE [download |-> NoName, message |-> failureMessage(resp), disabled |-> FALSE,
          reset |-> FALSE]

\* the then / catch handlers of a request in flight, which carried payload and
\* is resolved with resp
resolve(payload, resp) ==
    /\ BagIn(payload, inflight)
    /\ inflight' = inflight (-) SetToBag({payload})
    /\ submitText' = "idle"
    /\ lastEvent' = [Ev("resolve") EXCEPT
                        !.status = resp.status,
                        !.disposition = resp.disposition,
                        !.download = settle(resp, docName).download]
    /\ IF settle(resp, docName).reset
       THEN \* currentFiles = []; fileInput.value = ''; renderPreviews()
            Rendered(<<>>, planMonth, intervalDays)
       ELSE /\ errorBox' = settle(resp, docName).message
            /\ submitDisabled' = settle(resp, docName).disabled
            /\ UNCHANGED <<currentFiles, previewGrid, scheduleInfo, planMonth,
                           intervalDays>>
    /\ UNCHANGED <<docName, preparing, nAdds, nRequests, nRemoves>>
    /\ UNCHANGED <<stalled, img, canvas>>
    /\ OtherForms

Resolve == \E payload \in BagToSet(inflight) : \E resp \in Responses : resolve(payload, resp)

\* the same, with a response that carries Content-Disposition
ResolveNamed ==
    \E payload \in BagToSet(inflight) : \E resp \in NamedResponses : resolve(payload, resp)

-----------------------------------------------------------------------------
(* static/js/app.js: the plan form *)

\* a request of a submit invocation: the endpoint it went to and how it ended;
\* "pending" until it settles, "json" a 2xx response with a JSON body,
\* "badjson" a 2xx response whose body r.json() rejects, "status" a non-2xx
\* response, "throw" a rejected fetch
Req(to, outcome) == [to |-> to, outcome |-> outcome]

Outcomes == {"json", "badjson", "status", "throw"}

\* the values of window.__PLAN_ENDPOINTS__ as the handler tests them
EndpointConfigs == [prefer : BOOLEAN, fallback : BOOLEAN]

\* addFiles(list): files.push(f) for the images of list
jsAddFiles(files, list) == files \o Filter(list, IsImageType)

\* the forms that configure no maximum are driven up to MaxHeld files
JsHeld(list) == Len(js_files) + Len(list) <= MaxHeld

JsUnchanged == UNCHANGED <<cfVars, p0Vars, p1Vars, p3Vars>>

\* dz drop listener
JsDrop ==
    \E list \in FileLists :
        /\ JsHeld(list)
        /\ js_files' = jsAddFiles(js_files, list)
        /\ lastEvent' = Ev("js drop")
        /\ UNCHANGED <<js_endpoints, js_calls, js_results, js_toast, js_done, js_nSubmits>>
        /\ JsUnchanged

\* input change listener: addFiles(input.files)
JsChange ==
    \E list \in FileLists :
        /\ JsHeld(list)
        /\ js_files' = jsAddFiles(js_files, list)
        /\ lastEvent' = Ev("js change")
        /\ UNCHANGED <<js_endpoints, js_calls, js_results, js_toast, js_done, js_nSubmits>>
        /\ JsUnchanged

\* thumbs click listener on the button with data-i = k - 1
JsRemove ==
    \E k \in 1..Len(js_files) :
        /\ js_files' = Splice1(js_files, k - 1)
        /\ lastEvent' = [Ev("js remove") EXCEPT !.idx = k]
        /\ UNCHANGED <<js_endpoints, js_calls, js_results, js_toast, js_done, js_nSubmits>>
        /\ JsUnchanged

\* the fallback always posted when it is configured
needsFallbackAlways(ok, endpoints) == endpoints.fallback

\* if (!ok && window.__PLAN_ENDPOINTS__?.fallback)
needsFallback(ok, endpoints) == ~ok /\ endpoints.fallback

\* if (!ok): the error is shown
showsError(ok) == ~ok

\* the end of the handler for an invocation that sent requests and has ok:
\* what it leaves in #results and #toast, and the record of the invocation
jsFinish(requests, ok) ==
    /\ js_results' = IF showsError(ok) THEN "error" ELSE "result"
    /\ js_toast' = IF showsError(ok) THEN "danger" ELSE "success"
    /\ js_done' = Call(requests, ok, showsError(ok))

\* planForm submit listener up to its first await
JsSubmit ==
    /\ js_nSubmits < MaxRequests
    /\ js_nSubmits' = js_nSubmits + 1
    /\ lastEvent' = [Ev("js submit") EXCEPT
                        !.issued = js_endpoints.prefer \/ js_endpoints.fallback]
    /\ IF js_endpoints.prefer
       THEN /\ js_calls' = js_calls (+) SetToBag({Call(<<Req("prefer", "pending")>>,
                                                        FALSE, FALSE)})
            /\ js_results' = "processing"
            /\ UNCHANGED <<js_toast, js_done>>
       ELSE IF needsFallback(FALSE, js_endpoints)
       THEN /\ js_calls' = js_calls (+) SetToBag({Call(<<Req("fallback", "pending")>>,
                                                        FALSE, FALSE)})
            /\ js_results' = "processing"
            /\ UNCHANGED <<js_toast, js_done>>
       ELSE /\ jsFinish(<<>>, FALSE)
            /\ UNCHANGED js_calls
    /\ UNCHANGED <<js_files, js_endpoints>>
    /\ JsUnchanged

\* the preferred request of a suspended invocation settles; the handler goes
\* on to its next await or to its end (await r.json() of a 2xx response is
\* taken together with the fetch it follows)
JsPreferSettles ==
    \E call \in BagToSet(js_calls) : \E outcome \in Outcomes :
        /\ call.requests[Len(call.requests)] = Req("prefer", "pending")
        /\ LET ok == (outcome = "json")
               sent == <<Req("prefer", outcome)>>
           IN  IF needsFallback(ok, js_endpoints)
               THEN /\ js_calls' = (js_calls (-) SetToBag({call}))
                                      (+) SetToBag({Call(sent \o <<Req("fallback", "pending")>>,
                                                         ok, FALSE)})
                    /\ js_results' = IF ok THEN "result" ELSE js_results
                    /\ js_toast' = IF ok THEN "success" ELSE js_toast
                    /\ UNCHANGED js_done
                    /\ lastEvent' = Ev("js prefer settled")
               ELSE /\ js_calls' = js_calls (-) SetToBag({call})
                    /\ jsFinish(sent, ok)
                    /\ lastEvent' = Ev("js finished")
        /\ UNCHANGED <<js_files, js_endpoints, js_nSubmits>>
        /\ JsUnchanged

\* the fallback request of a suspended invocation settles; r.json().catch(() =>
\* null) makes a 2xx response with any body a success
JsFallbackSettles ==
    \E call \in BagToSet(js_calls) : \E outcome \in Outcomes :
        /\ call.requests[Len(call.requests)] = Req("fallback", "pending")
        /\ LET ok == call.ok \/ outcome \in {"json", "badjson"}
               sent == SubSeq(call.requests, 1, Len(call.requests) - 1)
                         \o <<Req("fallback", outcome)>>
           IN  /\ js_calls' = js_calls (-) SetToBag({call})
               /\ jsFinish(sent, ok)
        /\ lastEvent' = Ev("js finished")
        /\ UNCHANGED <<js_files, js_endpoints, js_nSubmits>>
        /\ JsUnchanged

NextJs == JsDrop \/ JsChange \/ JsRemove \/ JsSubmit \/ JsPreferSettles \/ JsFallbackSettles

-----------------------------------------------------------------------------
(* unnamed/part_000: setupUploader and protectSubmit *)

\* renderThumb(file, idx) for every file of the list: the thumbs, each with the
\* idx its click listener closes over
thumbsOf(files) == [i \in 1..Len(files) |-> [file |-> files[i], idx |-> i - 1]]

\* appendFiles(list): what it leaves in fileInput.files
appendFiles(dataTransferFiles, list) == dataTransferFiles \o Filter(list, IsImageType)

\* the click listener of a thumb's Sil button: what it leaves in fileInput.files
deleteThumb(dataTransferFiles, idx) == Splice1(dataTransferFiles, idx)

\* fileInput change listener; the picker has put list into fileInput.files
P0Change ==
    \E list \in FileLists :
        /\ p0_inputFiles' = appendFiles(p0_dataTransfer, list)
        /\ p0_thumbs' = thumbsOf(p0_inputFiles')
        /\ lastEvent' = Ev("p0 change")
        /\ UNCHANGED <<p0_dataTransfer, p0_btnDisabled, p0_posted, cfVars, jsVars, p1Vars, p3Vars>>

\* drop listener: if (files && files.length) appendFiles(files)
P0Drop ==
    \E list \in FileLists :
        /\ IF list # <<>>
           THEN /\ p0_inputFiles' = appendFiles(p0_dataTransfer, list)
                /\ p0_thumbs' = thumbsOf(p0_inputFiles')
           ELSE UNCHANGED <<p0_inputFiles, p0_thumbs>>
        /\ lastEvent' = Ev("p0 drop")
        /\ UNCHANGED <<p0_dataTransfer, p0_btnDisabled, p0_posted, cfVars, jsVars, p1Vars, p3Vars>>

\* click on the Sil button of the thumb at position k (1-based)
P0Delete ==
    \E k \in 1..Len(p0_thumbs) :
        /\ p0_inputFiles' = deleteThumb(p0_dataTransfer, p0_thumbs[k].idx)
        /\ p0_thumbs' = thumbsOf(p0_inputFiles')
        /\ lastEvent' = [Ev("p0 delete") EXCEPT !.idx = k]
        /\ UNCHANGED <<p0_dataTransfer, p0_btnDisabled, p0_posted, cfVars, jsVars, p1Vars, p3Vars>>

\* protectSubmit: the form's own POST goes out with fileInput.files
P0Submit ==
    /\ ~p0_btnDisabled
    /\ p0_btnDisabled' = TRUE
    /\ p0_posted' = p0_inputFiles
    /\ lastEvent' = [Ev("p0 submit") EXCEPT !.issued = TRUE]
    /\ UNCHANGED <<p0_dataTransfer, p0_inputFiles, p0_thumbs, cfVars, jsVars, p1Vars, p3Vars>>

NextPart000 == P0Change \/ P0Drop \/ P0Delete \/ P0Submit

-----------------------------------------------------------------------------
(* unnamed/part_001: the /planla form *)

\* addFiles(list): filesState afterwards
p1AddFiles(state, list) == state \o Filter(list, IsImageType)

\* the payload without fd.delete("images"): the files of the native input stay
p1PayloadKeepNative(native, state) == native \o state

\* new FormData(form); fd.delete("images"); filesState.forEach(append): the
\* images entries of the payload
p1Payload(native, state) ==
    LET fd0 == native
        fd1 == <<>>
    IN  fd1 \o state

P1Held(list) == Len(filesState) + Len(list) <= MaxHeld

\* input change listener; the picker has put list into input.files
P1Change ==
    \E list \in FileLists :
        /\ P1Held(list)
        /\ p1_inputFiles' = list
        /\ filesState' = p1AddFiles(filesState, list)
        /\ p1_thumbs' = thumbsOf(filesState')
        /\ lastEvent' = Ev("p1 change")
        /\ UNCHANGED <<p1_btnDisabled, p1_inflight, cfVars, jsVars, p0Vars, p3Vars>>

\* dropzone drop listener
P1Drop ==
    \E list \in FileLists :
        /\ P1Held(list)
        /\ filesState' = p1AddFiles(filesState, list)
        /\ p1_thumbs' = thumbsOf(filesState')
        /\ lastEvent' = Ev("p1 drop")
        /\ UNCHANGED <<p1_inputFiles, p1_btnDisabled, p1_inflight, cfVars, jsVars, p0Vars, p3Vars>>

\* click on the remove button of the thumb at position k (1-based)
P1Remove ==
    \E k \in 1..Len(p1_thumbs) :
        /\ filesState' = Splice1(filesState, p1_thumbs[k].idx)
        /\ p1_thumbs' = thumbsOf(filesState')
        /\ lastEvent' = [Ev("p1 remove") EXCEPT !.idx = k]
        /\ UNCHANGED <<p1_inputFiles, p1_btnDisabled, p1_inflight, cfVars, jsVars, p0Vars, p3Vars>>

\* resetBtn click; a reset button also empties the native input, any other
\* button leaves it
P1Reset ==
    /\ filesState' = <<>>
    /\ p1_thumbs' = thumbsOf(filesState')
    /\ p1_inputFiles' \in {p1_inputFiles, <<>>}
    /\ lastEvent' = Ev("p1 reset")
    /\ UNCHANGED <<p1_btnDisabled, p1_inflight, cfVars, jsVars, p0Vars, p3Vars>>

\* form submit listener up to await fetch("/planla")
P1Submit ==
    /\ ~p1_btnDisabled
    /\ p1_btnDisabled' = TRUE
    /\ p1_inflight' = p1_inflight (+) SetToBag({p1Payload(p1_inputFiles, filesState)})
    /\ lastEvent' = [Ev("p1 submit") EXCEPT !.issued = TRUE]
    /\ UNCHANGED <<filesState, p1_inputFiles, p1_thumbs, cfVars, jsVars, p0Vars, p3Vars>>

\* the rest of the submit listener: toast, finally btn.disabled = false
P1Resolve ==
    \E payload \in BagToSet(p1_inflight) : \E status \in {200, 500, 0} :
        /\ p1_inflight' = p1_inflight (-) SetToBag({payload})
        /\ p1_btnDisabled' = FALSE
        /\ lastEvent' = [Ev("p1 resolve") EXCEPT !.status = status]
        /\ UNCHANGED <<filesState, p1_inputFiles, p1_thumbs, cfVars, jsVars, p0Vars, p3Vars>>

NextPart001 == P1Change \/ P1Drop \/ P1Remove \/ P1Reset \/ P1Submit \/ P1Resolve

-----------------------------------------------------------------------------
(* unnamed/part_003: the /upload form *)

\* files = files.concat(dropped)  and  files = files.concat(picked)
p3Concat(files, list) == files \o list

P3Held(list) == Len(p3_files) + Len(list) <= MaxHeld

\* dropzone drop listener
P3Drop ==
    \E list \in FileLists :
        /\ P3Held(list)
        /\ p3_files' = IF list # <<>> THEN p3Concat(p3_files, list) ELSE p3_files
        /\ lastEvent' = Ev("p3 drop")
        /\ UNCHANGED <<p3_btnDisabled, p3_inflight, cfVars, jsVars, p0Vars, p1Vars>>

\* file-input change listener
P3Change ==
    \E list \in FileLists :
        /\ P3Held(list)
        /\ p3_files' = IF list # <<>> THEN p3Concat(p3_files, list) ELSE p3_files
        /\ lastEvent' = Ev("p3 change")
        /\ UNCHANGED <<p3_btnDisabled, p3_inflight, cfVars, jsVars, p0Vars, p1Vars>>

\* form submit listener up to await fetch("/upload")
P3Submit ==
    /\ ~p3_btnDisabled
    /\ IF p3_files = <<>>
       THEN \* alert("Önce görsel ekleyin."); return
            /\ UNCHANGED <<p3_btnDisabled, p3_inflight>>
            /\ lastEvent' = Ev("p3 submit")
       ELSE /\ p3_btnDisabled' = TRUE
            /\ p3_inflight' = p3_inflight (+) SetToBag({p3_files})
            /\ lastEvent' = [Ev("p3 submit") EXCEPT !.issued = TRUE]
    /\ UNCHANGED <<p3_files, cfVars, jsVars, p0Vars, p1Vars>>

\* the rest of the submit listener: js.ok empties files, anything else alerts;
\* finally btn.disabled = false
P3Resolve ==
    \E payload \in BagToSet(p3_inflight) : \E jsOk \in BOOLEAN :
        /\ p3_inflight' = p3_inflight (-) SetToBag({payload})
        /\ p3_files' = IF jsOk THEN <<>> ELSE p3_files
        /\ p3_btnDisabled' = FALSE
        /\ lastEvent' = [Ev("p3 resolve") EXCEPT !.status = IF jsOk THEN 200 ELSE 500]
        /\ UNCHANGED <<cfVars, jsVars, p0Vars, p1Vars>>

NextPart003 == P3Drop \/ P3Change \/ P3Submit \/ P3Resolve

-----------------------------------------------------------------------------
(* Specifications *)

\* the plan form of static/js/app.js once the script has run, on a page that
\* configures the given endpoints; InitJs is the page that configures both
InitJsWith(endpoints) ==
    /\ js_files = <<>>
    /\ js_endpoints = endpoints
    /\ js_calls = EmptyBag
    /\ js_results = ""
    /\ js_toast = ""
    /\ js_done = NoCall
    /\ js_nSubmits = 0

InitJs == InitJsWith([prefer |-> TRUE, fallback |-> TRUE])

\* the compression form once the script has run: currentFiles = [] and the
\* trailing renderPreviews() of the script
InitForm ==
    /\ LET r == renderPreviews(<<>>, Feb2024, <<>>)
       IN  /\ planMonth = Feb2024
           /\ intervalDays = <<>>
           /\ errorBox = r.errorBox
           /\ previewGrid = r.previewGrid
           /\ scheduleInfo = r.scheduleInfo
           /\ submitDisabled = r.submitDisabled
    /\ currentFiles = <<>>
    /\ submitText = "idle"
    /\ docName = ""
    /\ preparing = EmptyBag
    /\ inflight = EmptyBag
    /\ nAdds = 0
    /\ nRequests = 0
    /\ nRemoves = 0
    /\ stalled = EmptyBag
    /\ img = NoSize
    /\ canvas = NoSize

InitParts ==
    /\ p0_dataTransfer = <<>> /\ p0_inputFiles = <<>> /\ p0_thumbs = <<>>
    /\ p0_btnDisabled = FALSE /\ p0_posted = <<>>
    /\ filesState = <<>> /\ p1_inputFiles = <<>> /\ p1_thumbs = <<>>
    /\ p1_btnDisabled = FALSE /\ p1_inflight = <<>>
    /\ p3_files = <<>> /\ p3_btnDisabled = FALSE /\ p3_inflight = <<>>

Init ==
    /\ InitForm
    /\ InitJs
    /\ InitParts
    /\ lastEvent = NoEvent

\* the same, on a page with any configuration of the plan endpoints
InitAnyEndpoints ==
    /\ InitForm
    /\ \E endpoints \in EndpointConfigs : InitJsWith(endpoints)
    /\ InitParts
    /\ lastEvent = NoEvent

Next ==
    \/ DropzoneDrop
    \/ FileInputChange
    \/ AddFilesResume
    \/ RemoveClick
    \/ ClearClick
    \/ Submit
    \/ Resolve

Spec == Init /\ [][Next]_vars

\* the compression form with the month and interval fields edited, files dropped
NextPlan == MonthChange \/ IntervalInput \/ DropzoneDrop \/ AddFilesResume \/ Submit \/ Resolve

SpecPlan == Init /\ [][NextPlan]_vars

\* calcPlanCount over the field values the calendar arithmetic is exercised on
MonthChangeAny == \E ym \in MonthTexts : monthChange(ym)
IntervalInputAny == \E iv \in IntervalTexts : intervalInput(iv)

NextCalc == MonthChangeAny \/ IntervalInputAny

SpecCalc == Init /\ [][NextCalc]_vars

\* the compression form with doc_name edited and responses that name the file
NextDownload ==
    DocNameEdit \/ DropzoneDrop \/ AddFilesResume \/ Submit \/ Resolve \/ ResolveNamed

SpecDownload == Init /\ [][NextDownload]_vars

\* the compression form with files that fail to be read; the browser delivers
\* the events of a preparation that can go on, and runs its continuation
NextPrepare ==
    DropzoneDrop \/ FileInputChange \/ AddFilesResume \/ ReaderError \/ RemoveClick \/ ClearClick

SpecPrepare == Init /\ [][NextPrepare]_vars /\ WF_vars(AddFilesResume)

\* compressImage's scaling over the image sizes
NextScale == ImgOnload

SpecScale == Init /\ [][NextScale]_vars

SpecJs == InitAnyEndpoints /\ [][NextJs]_vars

SpecPart000 == Init /\ [][NextPart000]_vars
SpecPart001 == Init /\ [][NextPart001]_vars
SpecPart003 == Init /\ [][NextPart003]_vars

-----------------------------------------------------------------------------
(* Properties *)

IsPrefix(s, t) == Len(s) <= Len(t) /\ SubSeq(t, 1, Len(s)) = s

\* s without its i-th element (1-based)
RemoveAt(s, i) == [j \in 1..(Len(s) - 1) |-> IF j < i THEN s[j] ELSE s[j + 1]]

OnlyImages(files) == \A i \in 1..Len(files) : files[i].major = "image"

\* C1: in the compression form the collection currentFiles never holds more
\* than MAX_FILES files, whatever drops, picker changes, removals, clears and
\* submissions happen and however the addFiles invocations overlap.
C1_NeverMoreThanMax == Len(currentFiles) <= MAX_FILES

\* an addFiles invocation has just finished whose images did not all fit
C1_Witness ==
    /\ lastEvent.op = "addFilesDone"
    /\ lastEvent.over
    /\ Len(currentFiles) = MAX_FILES

\* C2: at most one request of the compression form is in flight at any time.
C2_AtMostOneInFlight == BagCardinality(inflight) <= 1

\* C3: no file whose type does not start with image/ is ever part of what a
\* form submits, in any of the forms.
C3_NoNonImageSubmitted ==
    /\ \A payload \in BagToSet(inflight) : OnlyImages(payload)
    /\ \A payload \in BagToSet(p1_inflight) : OnlyImages(payload)
    /\ \A payload \in BagToSet(p3_inflight) : OnlyImages(payload)
    /\ OnlyImages(p0_posted)

\* C4: in every form with a removal control per thumbnail, activating the
\* control of the item shown at position i removes exactly the file at position
\* i; the other files keep their content and order.
C4_RemoveKeepsOthers ==
    [][ /\ lastEvent'.op = "remove" =>
             currentFiles' = RemoveAt(currentFiles, lastEvent'.idx)
        /\ lastEvent'.op = "p0 delete" =>
             p0_inputFiles' = RemoveAt(p0_inputFiles, lastEvent'.idx)
        /\ lastEvent'.op = "p1 remove" =>
             filesState' = RemoveAt(filesState, lastEvent'.idx) ]_vars

\* C5: in every form, files added by a drop or a picker change come after the
\* files already held, which all stay, in their order.
C5_AddAppends ==
    [][ /\ lastEvent'.op = "addFilesDone" => IsPrefix(currentFiles, currentFiles')
        /\ lastEvent'.op \in {"p0 change", "p0 drop"} =>
             IsPrefix(p0_inputFiles, p0_inputFiles')
        /\ lastEvent'.op \in {"p1 change", "p1 drop"} => IsPrefix(filesState, filesState')
        /\ lastEvent'.op \in {"p3 change", "p3 drop"} => IsPrefix(p3_files, p3_files') ]_vars

\* C6: in every form that posts with fetch, a submit event fired while the
\* collection is empty issues no request: no request carries an empty collection.
C6_NoRequestWithoutFiles ==
    /\ \A payload \in BagToSet(inflight) : payload # <<>>
    /\ \A payload \in BagToSet(p1_inflight) : payload # <<>>
    /\ \A payload \in BagToSet(p3_inflight) : payload # <<>>

\* C7, as claimed: once a request of the compression form has resolved and its
\* handlers have run, the submit control is enabled, whatever the outcome.
C7_EnabledAfterResolve == lastEvent.op = "resolve" => ~submitDisabled

\* C7, amended: once a request has resolved and its handlers have run, the
\* label is back to the idle text; after a failure (non-2xx or network error)
\* the submit control is enabled; after a success the collection is empty and
\* the control is disabled.
C7_EnabledAfterFailure ==
    lastEvent.op = "resolve" =>
        /\ submitText = "idle"
        /\ lastEvent.status \notin 200..299 => ~submitDisabled
        /\ lastEvent.status \in 200..299 => (currentFiles = <<>> /\ submitDisabled)

\* a request has just failed with 413 and the control is enabled
C7_Witness ==
    /\ lastEvent.op = "resolve"
    /\ lastEvent.status = 413
    /\ ~submitDisabled
    /\ currentFiles # <<>>

\* C8, as claimed: a submit with more files than the scheduling count derived
\* from the month and the interval is rejected with a message and issues no
\* request, for every value of the two fields.
C8_OverPlanRejected ==
    (lastEvent.op = "submit" /\ Len(currentFiles) > planOf[planMonth, intervalDays].cnt)
        => (~lastEvent.issued /\ errorBox # "")

\* C8, amended: when the month field holds a value in YYYY-MM form, a submit
\* with more files than the scheduling count is rejected with the message about
\* the count and issues no request, for every value of the interval field.
C8_OverPositivePlanRejected ==
    [][ ( /\ lastEvent'.op = "submit"
          /\ MatchesYearMonth(planMonth)
          /\ Len(currentFiles) > planOf[planMonth, intervalDays].cnt )
        => ( /\ ~lastEvent'.issued
             /\ errorBox' = "plan count exceeded (submit)"
             /\ inflight' = inflight
             /\ nRequests' = nRequests ) ]_vars

\* a submit has just been rejected for the count
C8_Witness ==
    /\ lastEvent.op = "submit"
    /\ ~lastEvent.issued
    /\ errorBox = "plan count exceeded (submit)"
    /\ Len(currentFiles) > planOf[planMonth, intervalDays].cnt

\* the calendar: the days of some months
KnownMonths ==
    { <<Feb2024, 29>>,
      <<Chars("2", "0", "2", "3", "-", "0", "2"), 28>>,
      <<Chars("1", "9", "0", "0", "-", "0", "2"), 28>>,
      <<Chars("2", "0", "0", "0", "-", "0", "2"), 29>>,
      <<Chars("0", "0", "9", "6", "-", "0", "2"), 29>>,
      <<Chars("2", "0", "2", "4", "-", "0", "1"), 31>>,
      <<Chars("2", "0", "2", "4", "-", "0", "4"), 30>>,
      <<Chars("2", "0", "2", "4", "-", "1", "2"), 31>> }

\* the interval a field value stands for; empty, zero and negative stand for 1
KnownIntervals ==
    { <<<<>>, 1>>, <<<<"0">>, 1>>, <<<<"-", "3">>, 1>>, <<<<"1">>, 1>>, <<<<"2">>, 2>>,
      <<<<"3">>, 3>>, <<<<"7">>, 7>>, <<<<"1", "5">>, 15>>, <<<<"2", "8">>, 28>>,
      <<<<"2", "9">>, 29>>, <<<<"3", "0">>, 30>>, <<<<"0", "2">>, 2>> }

\* C9: for a month in YYYY-MM form and an interval n >= 1, calcPlanCount is the
\* number of days 1, 1+n, 1+2n, ... up to min(29, days of the month), which is
\* the ceiling of that minimum over n; 15 for 2024-02 and n = 2; an empty, zero
\* or negative interval counts as n = 1.
C9_PlanCount ==
    \A m \in KnownMonths : \A i \in KnownIntervals :
        (planMonth = m[1] /\ intervalDays = i[1]) =>
            LET last == IF m[2] < 29 THEN m[2] ELSE 29
                n == i[2]
            IN  /\ scheduleInfo.shown
                /\ scheduleInfo.cutoff = last
                /\ scheduleInfo.cnt = Cardinality({d \in 1..last : (d - 1) % n = 0})
                /\ scheduleInfo.cnt = (last + n - 1) \div n
                /\ (m[1] = Feb2024 /\ n = 2) => scheduleInfo.cnt = 15

\* the fields hold 2024-02 and 2 after an edit, and 15 dates are announced
C9_Witness ==
    /\ lastEvent.op \in {"month", "interval"}
    /\ planMonth = Feb2024
    /\ intervalDays = <<"2">>
    /\ scheduleInfo.cnt = 15

\* C10: after a 2xx response the download carries the filename of the
\* Content-Disposition header when the header is present, and the default
\* name only when it is absent.
C10_HeaderNameUsed ==
    (lastEvent.op = "resolve" /\ lastEvent.status \in 200..299) =>
        (lastEvent.disposition # NoName => lastEvent.download = lastEvent.disposition)

\* C11: in the compression form the preview grid holds one card per file of
\* currentFiles, in the same order, and the removal control of the card at
\* position i removes the file at position i of the collection; this holds
\* after every handler (add, remove, clear, resolved submission).
C11_PreviewInSync ==
    /\ Len(previewGrid) = Len(currentFiles)
    /\ \A i \in 1..Len(previewGrid) :
          /\ previewGrid[i].file = currentFiles[i]
          /\ Splice1(currentFiles, previewGrid[i].idx) = RemoveAt(currentFiles, i)

\* a card other than the first has just been used to remove its file, and
\* cards remain
C11_Witness ==
    /\ lastEvent.op = "remove"
    /\ lastEvent.idx > 1
    /\ Len(previewGrid) >= 2

\* the re-encoded file of an image: same base name, .jpg, image/jpeg
Reencoded(f) == [f EXCEPT !.ext = "jpg", !.minor = "jpeg"]

\* C12: when an addFiles invocation comes back from its preparation, the
\* collection receives, up to MAX_FILES, one file for every image of its
\* batch, in order: the re-encoded file, or the original when the image could
\* not be normalized (decode error, encode failure).
C12_NoAcceptedImageLost ==
    [][ lastEvent'.op \in {"addFilesDone", "addFilesRejected"} =>
          \E imgs \in BagToSet(preparing) :
             /\ CopiesIn(imgs, preparing') < CopiesIn(imgs, preparing)
             /\ Len(currentFiles') =
                   (IF Len(currentFiles) + Len(imgs) > MAX_FILES
                    THEN MAX_FILES ELSE Len(currentFiles) + Len(imgs))
             /\ \A j \in 1..Len(imgs) :
                   Len(currentFiles) + j <= MAX_FILES =>
                      currentFiles'[Len(currentFiles) + j] \in {imgs[j], Reencoded(imgs[j])}
      ]_vars

\* C13: in the compression form a failed submission (network error or
\* non-2xx response) leaves the collection and its previews as they were,
\* shows an error message, and puts the submit control back to its idle label
\* and enabled, so the files can be submitted again.
C13_FailureNonFatal ==
    [][ (lastEvent'.op = "resolve" /\ lastEvent'.status \notin 200..299) =>
          /\ currentFiles' = currentFiles
          /\ previewGrid' = previewGrid
          /\ errorBox' # ""
          /\ submitText' = "idle"
          /\ ~submitDisabled'
      ]_vars

\* a request has just failed on the network; the files are held, the message
\* is shown and the control is enabled
C13_Witness ==
    /\ lastEvent.op = "resolve"
    /\ lastEvent.status = 0
    /\ errorBox = "network error"
    /\ currentFiles # <<>>
    /\ previewGrid # <<>>
    /\ submitText = "idle"
    /\ ~submitDisabled

\* C14: for a decoded image of width w >= 1 and height h >= 1 the canvas of
\* compressImage is at most maxEdge and at least 1 in both dimensions, and an
\* image whose larger side is at most maxEdge keeps its dimensions.
C14_ScaledWithinEdge ==
    img # NoSize =>
        /\ canvas.width <= maxEdge /\ canvas.height <= maxEdge
        /\ canvas.width >= 1 /\ canvas.height >= 1
        /\ (img.width <= maxEdge /\ img.height <= maxEdge) => canvas = img

\* C15: in the compression form, when a submission succeeds, every file that
\* the reset takes out of the collection was part of the payload of that
\* submission.
C15_ResetOnlySentFiles ==
    [][ (lastEvent'.op = "resolve" /\ lastEvent'.status \in 200..299) =>
          \E payload \in BagToSet(inflight) :
             /\ CopiesIn(payload, inflight') < CopiesIn(payload, inflight)
             /\ \A i \in 1..Len(currentFiles) :
                   (\A k \in 1..Len(currentFiles') : currentFiles'[k] # currentFiles[i])
                      => \E j \in 1..Len(payload) : payload[j] = currentFiles[i]
      ]_vars

C17_DisabledWhilePreparing ==
    (preparing # EmptyBag \/ stalled # EmptyBag) => submitDisabled

\* an attempt succeeded: the preferred request got a 2xx response with a JSON
\* body, or the fallback request got a 2xx response
Succeeded(req) ==
    \/ req.to = "prefer" /\ req.outcome = "json"
    \/ req.to = "fallback" /\ req.outcome \in {"json", "badjson"}

\* the order of the requests of one submit invocation of the plan form
AttemptsInOrder(requests) ==
    /\ Len(requests) <= 2
    /\ \A i \in 1..Len(requests) :
          /\ requests[i].to = "prefer" => (i = 1 /\ js_endpoints.prefer)
          /\ requests[i].to = "fallback" =>
                /\ js_endpoints.fallback
                /\ IF i = 1 THEN ~js_endpoints.prefer
                   ELSE /\ requests[1].to = "prefer"
                        /\ requests[1].outcome \in {"badjson", "status", "throw"}
    /\ (requests # <<>> /\ js_endpoints.prefer) => requests[1].to = "prefer"

\* C18: in the plan form of static/js/app.js every submit posts to the
\* preferred endpoint first when it is configured and to the fallback endpoint
\* only when the preferred attempt did not succeed (not configured, threw, or
\* non-2xx); after a successful preferred attempt it sends nothing more; it
\* sends at most two requests; and when it ends it shows the error if and only
\* if no attempt succeeded.
C18_PreferThenFallback ==
    /\ \A call \in BagToSet(js_calls) :
          /\ AttemptsInOrder(call.requests)
          /\ ~call.error
    /\ AttemptsInOrder(js_done.requests)
    /\ \A i \in 1..Len(js_done.requests) :
          /\ js_done.requests[i].outcome # "pending"
          /\ Succeeded(js_done.requests[i]) => i = Len(js_done.requests)
    /\ js_done # NoCall =>
          (js_done.error <=> \A i \in 1..Len(js_done.requests) :
                                ~Succeeded(js_done.requests[i]))
    /\ (lastEvent.op = "js finished" \/ (lastEvent.op = "js submit" /\ ~lastEvent.issued))
          => /\ js_done # NoCall
             /\ js_done.error <=> js_results = "error"
             /\ js_done.error <=> js_toast = "danger"

\* a submit has just ended without the error, after a preferred attempt that
\* got a non-2xx response and a fallback attempt that succeeded
C18_Witness ==
    /\ lastEvent.op = "js finished"
    /\ js_done.requests = <<Req("prefer", "status"), Req("fallback", "json")>>
    /\ ~js_done.error
    /\ js_results = "result"

\* C19: every addFiles invocation that accepted an image eventually finishes,
\* whatever happens to its files while they are read, decoded and re-encoded:
\* no invocation stays in preparation and the label of the submit control
\* comes back from the 'preparing' text.
C19_PreparationEnds ==
    (preparing # EmptyBag \/ stalled # EmptyBag)
        ~> (preparing = EmptyBag /\ stalled = EmptyBag /\ submitText # "preparing")

\* C20: in the compression form, whenever no preparation and no submission is
\* in progress, the submit control is enabled if and only if the collection
\* holds at least 1 and at most MAX_FILES files.
C20_EnabledIffSubmittable ==
    (preparing = EmptyBag /\ stalled = EmptyBag /\ inflight = EmptyBag) =>
        (~submitDisabled <=> (Len(currentFiles) >= 1 /\ Len(currentFiles) <= MAX_FILES))

\* C21: in the /planla form the images entries of the submitted payload are
\* the files of filesState at submit time, in order and each once, whatever
\* the native file input holds; files taken out with a remove control or the
\* reset button before the submit are not sent.
C21_PayloadIsFilesState ==
    lastEvent.op = "p1 submit" => p1_inflight = SetToBag({filesState})

\* a submit has just been made while the native input still holds an image
\* that was removed from filesState, and filesState holds another file
C21_Witness ==
    /\ lastEvent.op = "p1 submit"
    /\ filesState # <<>>
    /\ \E i \in 1..Len(p1_inputFiles) :
          /\ IsImageType(p1_inputFiles[i])
          /\ \A j \in 1..Len(filesState) : filesState[j] # p1_inputFiles[i]

====
